---- MODULE Spec2Model ----
(***************************************************************************)
(* Model of the LREC club tools: the notice generator                      *)
(* (scripts/source/notice-generator/notice-generator.go) and the           *)
(* certificate generator (unnamed/part_001).                               *)
(*                                                                         *)
(* Strings are TLA+ strings; a character is a string of length 1.          *)
(* An instant is a record [day, sec]: whole days since 1899-12-30 (the     *)
(* spreadsheet epoch of parseDate) and seconds within that day, UTC.       *)
(***************************************************************************)
EXTENDS Integers, Sequences, FiniteSets, TLC

VARIABLES
    \* the date parsers, called on one cell
    dateStr,        \* the cell handed to the parsers
    dateOut,        \* what parseDate returned (Unset before the call)
    flexOut         \* what parseFlexibleDate returned (Unset before the call)

dateVars == <<dateStr, dateOut, flexOut>>

VARIABLES
    \* a loader, called on one workbook
    hdrLoader,      \* which loader: "attendance", "roster", "calendar", "csv", "excel"
    hdrFile,        \* the workbook
    hdrCols,        \* the column index the loader resolved for each column word
    hdrErr,         \* the error the loader returned ("" for nil)
    hdrDone         \* whether the loader has run

hdrVars == <<hdrLoader, hdrFile, hdrCols, hdrErr, hdrDone>>

VARIABLES
    \* getMostRecentEvent, called on one calendar
    selFile,        \* the calendar workbook
    selNow,         \* time.Now() inside the call
    selOut,         \* the (EventInfo, error) it returned
    selDone         \* whether it has run

selVars == <<selFile, selNow, selOut, selDone>>

VARIABLES
    \* one run of the notice generator's main
    nArgs,          \* flag.NArg()
    nFile,          \* the spreadsheet named on the command line
    nNow,           \* time.Now(), line 80
    nPerIteration,  \* whether the build gives the range loop a variable per iteration
    npc,            \* where main is
    nEvents,        \* events, line 74
    nIdx,           \* how many events the loop of line 84 has visited
    nEventVar,      \* the loop variable event when it is one variable for the loop
    nClosest,       \* closestEvent: Nil or what it points to
    nMinDiff,       \* minDiff
    nOutput,        \* the output file: "absent", "created" (empty) or "written"
    nRendered,      \* the event whose fields were rendered into the notice
    nStdout,        \* lines printed to standard output
    nStderr,        \* lines printed to standard error
    nExit           \* the exit code; -1 while main runs

noticeVars == <<nArgs, nFile, nNow, nPerIteration, npc, nEvents, nIdx, nEventVar, nClosest,
                nMinDiff, nOutput, nRendered, nStdout, nStderr, nExit>>

VARIABLES
    \* one run of the certificate generator's main
    cEnv,           \* the .env file: "missing", "nocreds" or "ok"
    cRosterFile, cAttFile, cCalFile,
    cNow,           \* time.Now() inside getMostRecentEvent
    cpc,            \* where main is
    cRoster,        \* roster, line 58
    cAttendees,     \* attendees, lines 64 and 70
    cEvent,         \* event, line 73
    cIdx,           \* how many attendees the loop of line 84 has visited
    cGenerated,     \* calls of generateCertificate, in order (attendee indices)
    cFiles,         \* certificate files written (attendee indices)
    cDialed,        \* SMTP sends attempted (attendee indices)
    cDelivered,     \* emails sent: [to, attendee]
    cErrors,        \* per-attendee errors logged: [attendee, what]
    sentCount,      \* sentCount, line 83
    cSummary,       \* the two numbers of the final line, <<>> until printed
    cExit           \* the exit code; -1 while main runs

certVars == <<cEnv, cRosterFile, cAttFile, cCalFile, cNow, cpc, cRoster,
              cAttendees, cEvent, cIdx, cGenerated, cFiles, cDialed, cDelivered, cErrors,
              sentCount, cSummary, cExit>>

VARIABLES
    \* one person's name, as the roster and the attendance sheet write it
    nameRosterCell, \* the name cell of the roster row
    nameAttCell,    \* the name cell of the attendance row
    nameOut,        \* what convertNameFormat returned for the attendance cell
    nameRoster,     \* the map readRoster returned
    nameAttendees,  \* the attendees after matchAttendeesWithEmails
    namePc          \* which calls were made: a subset of {"convert", "match"}

nameVars == <<nameRosterCell, nameAttCell, nameOut, nameRoster, nameAttendees, namePc>>

vars == <<dateVars, hdrVars, selVars, noticeVars, certVars, nameVars>>

Unset == [ok |-> FALSE, via |-> "unset", day |-> 0, sec |-> 0]

(***************************************************************************)
(* Strings                                                                 *)
(***************************************************************************)
Ch(s, i) == IF i >= 1 /\ i <= Len(s) THEN SubSeq(s, i, i) ELSE ""

Drop(s, n) == IF n >= Len(s) THEN "" ELSE SubSeq(s, n + 1, Len(s))

Take(s, n) == IF n >= Len(s) THEN s ELSE SubSeq(s, 1, n)

DigitChars == {"0", "1", "2", "3", "4", "5", "6", "7", "8", "9"}

DigitSeq == <<"0", "1", "2", "3", "4", "5", "6", "7", "8", "9">>

DigitValues == [c \in DigitChars |-> (CHOOSE k \in 1..Len(DigitSeq) : DigitSeq[k] = c) - 1]

DigitVal(c) == DigitValues[c]

isDigit(s, i) == Ch(s, i) \in DigitChars

UpperChars == <<"A", "B", "C", "D", "E", "F", "G", "H", "I", "J", "K", "L", "M",
                "N", "O", "P", "Q", "R", "S", "T", "U", "V", "W", "X", "Y", "Z">>

LowerChars == <<"a", "b", "c", "d", "e", "f", "g", "h", "i", "j", "k", "l", "m",
                "n", "o", "p", "q", "r", "s", "t", "u", "v", "w", "x", "y", "z">>

UpperSet == {UpperChars[k] : k \in 1..Len(UpperChars)}

LowerOfUpper ==
    [c \in UpperSet |-> LowerChars[CHOOSE k \in 1..Len(UpperChars) : UpperChars[k] = c]]

LowerCh(c) == IF c \in UpperSet THEN LowerOfUpper[c] ELSE c

RECURSIVE ToLower(_)
ToLower(s) == IF s = "" THEN "" ELSE LowerCh(Ch(s, 1)) \o ToLower(Drop(s, 1))

SpaceChars == {" ", "\t"}

RECURSIVE TrimLeft(_)
TrimLeft(s) == IF s # "" /\ Ch(s, 1) \in SpaceChars THEN TrimLeft(Drop(s, 1)) ELSE s

RECURSIVE TrimRight(_)
TrimRight(s) ==
    IF s # "" /\ Ch(s, Len(s)) \in SpaceChars THEN TrimRight(Take(s, Len(s) - 1)) ELSE s

TrimSpace(s) == TrimRight(TrimLeft(s))

Contains(s, sub) ==
    \E i \in 1..(Len(s) - Len(sub) + 1) : SubSeq(s, i, i + Len(sub) - 1) = sub

(***************************************************************************)
(* String order (Go compares strings byte by byte)                         *)
(***************************************************************************)
AsciiOrder == " ()+,-./0123456789:ABCDEFGHIJKLMNOPQRSTUVWXYZabcdefghijklmnopqrstuvwxyz"

Code(c) == CHOOSE k \in 1..Len(AsciiOrder) : Ch(AsciiOrder, k) = c

RECURSIVE StrGreater(_, _)
StrGreater(a, b) ==
    IF a = "" THEN FALSE
    ELSE IF b = "" THEN TRUE
    ELSE IF Ch(a, 1) = Ch(b, 1) THEN StrGreater(Drop(a, 1), Drop(b, 1))
    ELSE Code(Ch(a, 1)) > Code(Ch(b, 1))

(***************************************************************************)
(* Calendar arithmetic (package time)                                      *)
(***************************************************************************)
ExcelEpochJDN == 2415019

isLeap(y) == y % 4 = 0 /\ (y % 100 # 0 \/ y % 400 = 0)

daysIn(m, y) ==
    IF m = 2 THEN (IF isLeap(y) THEN 29 ELSE 28)
    ELSE IF m \in {4, 6, 9, 11} THEN 30 ELSE 31

\* Days from 1899-12-30 to the civil date y-m-d.
DayNumber(y, m, d) ==
    LET a  == (14 - m) \div 12
        yy == y + 4800 - a
        mm == m + 12 * a - 3
    IN  d + ((153 * mm + 2) \div 5) + 365 * yy + (yy \div 4) - (yy \div 100)
          + (yy \div 400) - 32045 - ExcelEpochJDN

\* An instant, normalised so that 0 <= sec < 86400.
Instant(day, sec) == [day |-> day + (sec \div 86400), sec |-> sec % 86400]

Before(t, u) == t.day < u.day \/ (t.day = u.day /\ t.sec < u.sec)

After(t, u) == Before(u, t)

(***************************************************************************)
(* time.Parse                                                              *)
(* A layout is the sequence of chunks nextStdChunk cuts it into: the       *)
(* standard chunks below, every other element a literal prefix.            *)
(***************************************************************************)
StdChunks == {"2006", "01", "1", "02", "2", "Jan", "January",
              "15", "04", "05", "Z07:00"}

shortMonthNames == <<"Jan", "Feb", "Mar", "Apr", "May", "Jun",
                     "Jul", "Aug", "Sep", "Oct", "Nov", "Dec">>

longMonthNames == <<"January", "February", "March", "April", "May", "June", "July",
                    "August", "September", "October", "November", "December">>

BadNum == [ok |-> FALSE, n |-> 0, rest |-> ""]

\* getnum: one or two digits; exactly two when fixed.
getnum(v, fixed) ==
    IF ~isDigit(v, 1) THEN BadNum
    ELSE IF ~isDigit(v, 2)
         THEN (IF fixed THEN BadNum
               ELSE [ok |-> TRUE, n |-> DigitVal(Ch(v, 1)), rest |-> Drop(v, 1)])
         ELSE [ok |-> TRUE, n |-> 10 * DigitVal(Ch(v, 1)) + DigitVal(Ch(v, 2)),
               rest |-> Drop(v, 2)]

\* The year chunk: exactly four digits.
getyear(v) ==
    IF Len(v) >= 4 /\ \A i \in 1..4 : isDigit(v, i)
    THEN [ok |-> TRUE,
          n |-> 1000 * DigitVal(Ch(v, 1)) + 100 * DigitVal(Ch(v, 2))
                + 10 * DigitVal(Ch(v, 3)) + DigitVal(Ch(v, 4)),
          rest |-> Drop(v, 4)]
    ELSE BadNum

\* lookup: the first table entry that is a case-insensitive prefix of v.
lookup(tab, v) ==
    LET hits == {k \in 1..Len(tab) :
                    Len(v) >= Len(tab[k]) /\ ToLower(Take(v, Len(tab[k]))) = ToLower(tab[k])}
    IN  IF hits = {} THEN BadNum
        ELSE LET k == CHOOSE h \in hits : \A o \in hits : h <= o
             IN  [ok |-> TRUE, n |-> k, rest |-> Drop(v, Len(tab[k]))]

RECURSIVE cutspace(_)
cutspace(s) == IF s # "" /\ Ch(s, 1) = " " THEN cutspace(Drop(s, 1)) ELSE s

\* skip: consume the literal prefix; a space of the layout takes a run of spaces.
RECURSIVE skip(_, _)
skip(v, prefix) ==
    IF prefix = "" THEN [ok |-> TRUE, rest |-> v]
    ELSE IF Ch(prefix, 1) = " "
         THEN (IF v # "" /\ Ch(v, 1) # " " THEN [ok |-> FALSE, rest |-> v]
               ELSE skip(cutspace(v), cutspace(prefix)))
         ELSE IF v = "" \/ Ch(v, 1) # Ch(prefix, 1) THEN [ok |-> FALSE, rest |-> v]
              ELSE skip(Drop(v, 1), Drop(prefix, 1))

RECURSIVE dropDigits(_)
dropDigits(s) == IF isDigit(s, 1) THEN dropDigits(Drop(s, 1)) ELSE s

\* Fractional seconds a value may carry after the seconds field.
skipFraction(v) ==
    IF Len(v) >= 2 /\ Ch(v, 1) \in {".", ","} /\ isDigit(v, 2)
    THEN dropDigits(Drop(v, 1)) ELSE v

\* The zone chunk Z07:00: "Z", or a sign, two digits, a colon, two digits.
getzone(v) ==
    IF Ch(v, 1) = "Z" THEN [ok |-> TRUE, n |-> 0, rest |-> Drop(v, 1)]
    ELSE IF Len(v) >= 6 /\ Ch(v, 1) \in {"+", "-"} /\ Ch(v, 4) = ":"
            /\ isDigit(v, 2) /\ isDigit(v, 3) /\ isDigit(v, 5) /\ isDigit(v, 6)
         THEN LET hh == 10 * DigitVal(Ch(v, 2)) + DigitVal(Ch(v, 3))
                  mm == 10 * DigitVal(Ch(v, 5)) + DigitVal(Ch(v, 6))
                  off == (hh * 60 + mm) * 60
              IN  IF hh > 24 \/ mm > 60 THEN BadNum
                  ELSE [ok |-> TRUE, n |-> (IF Ch(v, 1) = "-" THEN 0 - off ELSE off),
                        rest |-> Drop(v, 6)]
         ELSE BadNum

ParseFail == [ok |-> FALSE, day |-> 0, sec |-> 0]

ZeroFields == [year |-> 0, month |-> 1, mday |-> 1, hour |-> 0, min |-> 0, sec |-> 0,
               zone |-> 0]

\* What the standard chunk c takes from the front of v.
chunkValue(c, v) ==
    CASE c = "2006"    -> getyear(v)
      [] c = "01"      -> getnum(v, TRUE)
      [] c = "1"       -> getnum(v, FALSE)
      [] c = "02"      -> getnum(v, TRUE)
      [] c = "2"       -> getnum(v, FALSE)
      [] c = "Jan"     -> lookup(shortMonthNames, v)
      [] c = "January" -> lookup(longMonthNames, v)
      [] c = "15"      -> getnum(v, FALSE)
      [] c = "04"      -> getnum(v, TRUE)
      [] c = "05"      -> getnum(v, TRUE)
      [] c = "Z07:00"  -> getzone(v)

chunkInRange(c, n) ==
    CASE c \in {"01", "1"}  -> n >= 1 /\ n <= 12
      [] c = "15"           -> n < 24
      [] c \in {"04", "05"} -> n < 60
      [] OTHER              -> TRUE

chunkStore(c, n, f) ==
    CASE c = "2006"                          -> [f EXCEPT !.year = n]
      [] c \in {"01", "1", "Jan", "January"} -> [f EXCEPT !.month = n]
      [] c \in {"02", "2"}                   -> [f EXCEPT !.mday = n]
      [] c = "15"                            -> [f EXCEPT !.hour = n]
      [] c = "04"                            -> [f EXCEPT !.min = n]
      [] c = "05"                            -> [f EXCEPT !.sec = n]
      [] c = "Z07:00"                        -> [f EXCEPT !.zone = n]

\* The fields once the layout is used up: no text may be left, and the day
\* must exist in its month.
parseEnd(v, f) ==
    IF v # "" THEN ParseFail
    ELSE IF f.mday < 1 \/ f.mday > daysIn(f.month, f.year) THEN ParseFail
    ELSE [ok |-> TRUE,
          day |-> Instant(DayNumber(f.year, f.month, f.mday),
                          f.hour * 3600 + f.min * 60 + f.sec - f.zone).day,
          sec |-> Instant(DayNumber(f.year, f.month, f.mday),
                          f.hour * 3600 + f.min * 60 + f.sec - f.zone).sec]

RECURSIVE ParseFrom(_, _, _, _)
RECURSIVE ParseLiteral(_, _, _, _)
RECURSIVE ParseChunk(_, _, _, _, _)

ParseLiteral(layout, i, r, f) ==
    IF r.ok THEN ParseFrom(layout, i + 1, r.rest, f) ELSE ParseFail

ParseChunk(layout, i, c, r, f) ==
    IF r.ok /\ chunkInRange(c, r.n)
    THEN ParseFrom(layout, i + 1, IF c = "05" THEN skipFraction(r.rest) ELSE r.rest,
                   chunkStore(c, r.n, f))
    ELSE ParseFail

ParseFrom(layout, i, v, f) ==
    IF i > Len(layout) THEN parseEnd(v, f)
    ELSE IF layout[i] \notin StdChunks
    THEN ParseLiteral(layout, i, skip(v, layout[i]), f)
    ELSE ParseChunk(layout, i, layout[i], chunkValue(layout[i], v), f)

timeParse(layout, v) == ParseFrom(layout, 1, v, ZeroFields)

\* The first layout of the list that parses v; 0 when none does.
RECURSIVE FirstFormatFrom(_, _, _)
FirstFormatFrom(formats, v, k) ==
    IF k > Len(formats) THEN 0
    ELSE IF timeParse(formats[k], v).ok THEN k
    ELSE FirstFormatFrom(formats, v, k + 1)

FirstFormat(formats, v) == FirstFormatFrom(formats, v, 1)

(***************************************************************************)
(* fmt.Sscanf(dateStr, "%f", &days)                                        *)
(* The scanner skips leading blanks, takes the longest float token at the  *)
(* front of the input and leaves whatever follows it unread.  Hexadecimal  *)
(* mantissas, binary exponents and digit-separating underscores are not    *)
(* modelled: no input drawn below contains "x", "p" or "_" in a token.     *)
(***************************************************************************)
accept(st, set) ==
    IF st.rest # "" /\ Ch(st.rest, 1) \in set
    THEN [hit |-> TRUE, tok |-> st.tok \o Ch(st.rest, 1), rest |-> Drop(st.rest, 1)]
    ELSE [hit |-> FALSE, tok |-> st.tok, rest |-> st.rest]

RECURSIVE acceptAll(_, _)
acceptAll(st, set) ==
    LET a == accept(st, set) IN IF a.hit THEN acceptAll(a, set) ELSE a

\* The three-letter words floatToken tries first ("nan", then "inf" after a sign).
acceptThird(b, c3) == IF b.hit THEN accept(b, c3) ELSE b

acceptSecond(a, c2, c3) == acceptThird(IF a.hit THEN accept(a, c2) ELSE a, c3)

acceptWord(st, c1, c2, c3) == acceptSecond(accept(st, c1), c2, c3)

\* floatToken, from the exponent on
floatTokenExponent(e) ==
    IF e.hit THEN acceptAll(accept(e, {"+", "-"}), DigitChars).tok ELSE e.tok

\* floatToken, from the decimal point on
floatTokenFraction(dot) ==
    floatTokenExponent(accept(IF dot.hit THEN acceptAll(dot, DigitChars) ELSE dot,
                              {"e", "E"}))

\* floatToken, after the sign: "inf", or the digits
floatTokenMantissa(inf) ==
    IF inf.hit THEN inf.tok
    ELSE floatTokenFraction(accept(acceptAll(inf, DigitChars), {"."}))

\* floatToken, after the attempt at "nan"
floatTokenSigned(nan) ==
    IF nan.hit THEN nan.tok
    ELSE floatTokenMantissa(acceptWord(accept(nan, {"+", "-"}),
                                       {"i", "I"}, {"n", "N"}, {"f", "F"}))

floatToken(v) ==
    floatTokenSigned(acceptWord([hit |-> FALSE, tok |-> "", rest |-> v],
                                {"n", "N"}, {"a", "A"}, {"n", "N"}))

RECURSIVE DigitsValue(_)
DigitsValue(s) ==
    IF s = "" THEN 0 ELSE 10 * DigitsValue(Take(s, Len(s) - 1)) + DigitVal(Ch(s, Len(s)))

RECURSIVE Zeros(_)
Zeros(n) == IF n <= 0 THEN "" ELSE "0" \o Zeros(n - 1)

BadFloat == [ok |-> FALSE, positive |-> FALSE, big |-> FALSE, trunc |-> 0]

\* The length of the run of digits at the front of s.
SpanDigits(s) == Len(s) - Len(dropDigits(s))

RECURSIVE dropZeros(_)
dropZeros(s) == IF Ch(s, 1) = "0" THEN dropZeros(Drop(s, 1)) ELSE s

\* Decimal strings without leading zeros, compared as fractions 0.a and 0.b.
FracAtLeast(a, b) == a = b \/ StrGreater(a, b)

\* The float64 nearest to 0.digs * 10^point, digs without leading zeros: ParseFloat
\* fails beyond the largest float64 and returns 0 below the smallest.  trunc is
\* int(days); big: the value has ten or more integer digits (trunc is then left 0).
floatOf(neg, digs, point) ==
    IF digs # "" /\ (point > 309 \/ (point = 309 /\ FracAtLeast(digs, "17976931348623158")))
    THEN BadFloat
    ELSE [ok       |-> TRUE,
          positive |-> /\ ~neg /\ digs # ""
                       /\ (point > -323 \/ (point = -323 /\ StrGreater(digs, "24703282292062327"))),
          big      |-> digs # "" /\ point > 9,
          trunc    |-> IF digs = "" \/ point <= 0 \/ point > 9 THEN 0
                       ELSE IF neg
                       THEN 0 - DigitsValue(Take(digs \o Zeros(point - Len(digs)), point))
                       ELSE DigitsValue(Take(digs \o Zeros(point - Len(digs)), point))]

\* The value of the digits digs with the decimal point after the first point of them.
floatValue(neg, digs, point) ==
    IF digs = "" THEN BadFloat
    ELSE floatOf(neg, dropZeros(digs), point - (Len(digs) - Len(dropZeros(digs))))

\* the exponent's digits r, which must be all that is left
parseExponentDigits(neg, ipart, fpart, eneg, r) ==
    IF r = "" \/ dropDigits(r) # "" THEN BadFloat
    ELSE floatValue(neg, ipart \o fpart,
                    Len(ipart) + (IF eneg THEN 0 - DigitsValue(r) ELSE DigitsValue(r)))

parseExponent(neg, ipart, fpart, r) ==
    IF Ch(r, 1) \in {"e", "E"}
    THEN parseExponentDigits(neg, ipart, fpart, Ch(r, 2) = "-",
                             IF Ch(r, 2) \in {"+", "-"} THEN Drop(r, 2) ELSE Drop(r, 1))
    ELSE IF r # "" THEN BadFloat
    ELSE floatValue(neg, ipart \o fpart, Len(ipart))

parseFraction(neg, ipart, r) ==
    IF Ch(r, 1) = "."
    THEN parseExponent(neg, ipart, Take(Drop(r, 1), SpanDigits(Drop(r, 1))),
                       Drop(Drop(r, 1), SpanDigits(Drop(r, 1))))
    ELSE parseExponent(neg, ipart, "", r)

parseMantissa(neg, body) ==
    parseFraction(neg, Take(body, SpanDigits(body)), Drop(body, SpanDigits(body)))

\* strconv.ParseFloat on a decimal token: whether it is well formed, whether the
\* value is > 0, and the value truncated toward zero.
parseFloat(tok) ==
    IF ToLower(tok) = "nan"
    THEN [ok |-> TRUE, positive |-> FALSE, big |-> FALSE, trunc |-> 0]
    ELSE IF ToLower(tok) \in {"inf", "+inf", "-inf"}
    THEN [ok |-> TRUE, positive |-> Ch(tok, 1) # "-", big |-> TRUE, trunc |-> 0]
    ELSE parseMantissa(Ch(tok, 1) = "-",
                       IF Ch(tok, 1) \in {"+", "-"} THEN Drop(tok, 1) ELSE tok)

\* Sscanf with the single verb %f: blanks skipped, then one float token.
sscanFloat(v) ==
    IF TrimLeft(v) = "" THEN BadFloat ELSE parseFloat(floatToken(TrimLeft(v)))

(***************************************************************************)
(* time.Duration: int64 nanoseconds, so at most 106751 days 85636.854 s.   *)
(* A duration is a record [day, sec] like an instant, in whole seconds;    *)
(* the largest Duration lies between MaxDuration and AboveMaxDuration and  *)
(* is written as the latter, the smallest as BelowMinDuration.             *)
(***************************************************************************)
MaxDurationDays == 106751

MaxDurationSecs == 85636

MaxDuration == [day |-> MaxDurationDays, sec |-> MaxDurationSecs]

AboveMaxDuration == [day |-> MaxDurationDays, sec |-> MaxDurationSecs + 1]

MinDuration == Instant(0 - MaxDurationDays, 0 - MaxDurationSecs)

BelowMinDuration == Instant(0 - MaxDurationDays, 0 - MaxDurationSecs - 1)

DurLess(a, b) == a.day < b.day \/ (a.day = b.day /\ a.sec < b.sec)

(***************************************************************************)
(* parseDate (notice generator) and parseFlexibleDate (certificates)       *)
(***************************************************************************)
RFC3339 == <<"2006", "-", "01", "-", "02", "T", "15", ":", "04", ":", "05", "Z07:00">>

parseDateFormats ==
    << <<"2006", "-", "01", "-", "02">>,
       <<"01", "/", "02", "/", "2006">>,
       <<"1", "/", "2", "/", "2006">>,
       <<"2006", "/", "01", "/", "02">>,
       <<"02", "-", "Jan", "-", "2006">>,
       <<"2", "-", "Jan", "-", "2006">>,
       <<"Jan", " ", "2", ", ", "2006">>,
       <<"January", " ", "2", ", ", "2006">>,
       RFC3339 >>

parseFlexibleDateFormats ==
    << <<"01", "/", "02", "/", "2006">>,
       <<"1", "/", "2", "/", "2006">>,
       <<"1", "/", "02", "/", "2006">>,
       <<"01", "/", "2", "/", "2006">>,
       <<"2006", "-", "01", "-", "02">>,
       <<"January", " ", "2", ", ", "2006">>,
       <<"Jan", " ", "2", ", ", "2006">>,
       <<"2", " ", "January", " ", "2006">>,
       <<"2", " ", "Jan", " ", "2006">> >>

\* via: "format" (a layout of the list parsed it), "serial" (the spreadsheet
\* serial-date fallback) or "none" (the error return).
parsedAs(t) == [ok |-> TRUE, via |-> "format", day |-> t.day, sec |-> t.sec]

NotParsed == [ok |-> FALSE, via |-> "none", day |-> 0, sec |-> 0]

\* parseDate lines 285-291: the spreadsheet serial number, f the result of Sscanf.
\* parseDate lines 285-289: excelEpoch.AddDate(0, 0, int(days)) for days > 0, f
\* the number Sscanf read.  A number of ten or more integer digits is a day
\* beyond those counted here, and its day is left at the epoch.
serialDate(f) ==
    IF f.ok /\ f.positive
    THEN [ok |-> TRUE, via |-> "serial", day |-> f.trunc, sec |-> 0]
    ELSE NotParsed

parseDateFrom(k, s) ==
    IF k # 0 THEN parsedAs(timeParse(parseDateFormats[k], s))
    ELSE serialDate(sscanFloat(s))

parseDate(s) == parseDateFrom(FirstFormat(parseDateFormats, s), s)

parseFlexibleDateFrom(k, s) ==
    IF k # 0 THEN parsedAs(timeParse(parseFlexibleDateFormats[k], s))
    ELSE NotParsed

parseFlexibleDate(s) == parseFlexibleDateFrom(FirstFormat(parseFlexibleDateFormats, s), s)

(***************************************************************************)
(* Workbooks.  A file is [status, rows]: status "ok", "unreadable"         *)
(* (OpenFile or GetRows fails) or "nosheets"; rows is the first sheet, a   *)
(* sequence of rows, each a sequence of cells.  Column indices are the     *)
(* code's: 0-based, -1 for a column not found.                             *)
(***************************************************************************)
Cell(row, i) == row[i + 1]

\* strings.ToLower(cell) of the certificate loaders, lines 128, 184 and 314
headerLowerUnchanged(cell) == cell

headerLower(cell) == ToLower(cell)

\* strings.ToLower(strings.TrimSpace(col)) of the notice loaders, lines 161 and 224
headerKey(col) == ToLower(TrimSpace(col))

\* readAttendance, lines 127-132: the first cell holding "name"; the loop breaks there.
RECURSIVE attendanceNameCol(_, _)
attendanceNameCol(header, i) ==
    IF i >= Len(header) THEN -1
    ELSE IF Contains(headerLower(Cell(header, i)), "name") THEN i
    ELSE attendanceNameCol(header, i + 1)

\* readRoster, lines 315-319: name is tested before email.
rosterCell(cellLower, i, cols) ==
    IF Contains(cellLower, "name") THEN [cols EXCEPT !.nameCol = i]
    ELSE IF Contains(cellLower, "email") THEN [cols EXCEPT !.emailCol = i]
    ELSE cols

\* readRoster, lines 313-320: every cell is looked at.
RECURSIVE rosterCols(_, _, _)
rosterCols(header, i, cols) ==
    IF i >= Len(header) THEN cols
    ELSE rosterCols(header, i + 1, rosterCell(headerLower(Cell(header, i)), i, cols))

NoCalendarCols == [dateCol |-> -1, topicCol |-> -1, speakerCol |-> -1,
                   locationCol |-> -1, timeCol |-> -1, headerRow |-> 0]

\* getMostRecentEvent, lines 185-196: the first word of the chain the cell holds.
calendarCell(cellLower, rowIdx, i, cols) ==
    IF Contains(cellLower, "date") THEN [cols EXCEPT !.dateCol = i, !.headerRow = rowIdx]
    ELSE IF Contains(cellLower, "topic") THEN [cols EXCEPT !.topicCol = i]
    ELSE IF Contains(cellLower, "speaker") THEN [cols EXCEPT !.speakerCol = i]
    ELSE IF Contains(cellLower, "location") THEN [cols EXCEPT !.locationCol = i]
    ELSE IF Contains(cellLower, "time") THEN [cols EXCEPT !.timeCol = i]
    ELSE cols

\* getMostRecentEvent, lines 183-197: one header row scanned into cols.
RECURSIVE calendarRowCols(_, _, _, _)
calendarRowCols(row, rowIdx, i, cols) ==
    IF i >= Len(row) THEN cols
    ELSE calendarRowCols(row, rowIdx, i + 1,
                         calendarCell(headerLower(Cell(row, i)), rowIdx, i, cols))

\* lines 198-200: the scan stops once date, topic and speaker are all found.
calendarFound(cols) == cols.dateCol # -1 /\ cols.topicCol # -1 /\ cols.speakerCol # -1

\* getMostRecentEvent, lines 179-201: up to two rows.
RECURSIVE calendarCols(_, _, _)
RECURSIVE calendarColsAfterRow(_, _, _)

calendarColsAfterRow(rows, rowIdx, cols) ==
    IF calendarFound(cols) THEN cols ELSE calendarCols(rows, rowIdx + 1, cols)

calendarCols(rows, rowIdx, cols) ==
    IF ~(rowIdx < 2 /\ rowIdx < Len(rows)) THEN cols
    ELSE calendarColsAfterRow(rows, rowIdx,
                              calendarRowCols(rows[rowIdx + 1], rowIdx, 0, cols))

NoNoticeCols == [dateIdx |-> -1, topicIdx |-> -1, speakerIdx |-> -1,
                 locationIdx |-> -1, timeIdx |-> -1]

\* The switch of readCSV lines 161-172 and readExcel lines 224-235.
noticeCell(key, i, cols) ==
    CASE key = "date"     -> [cols EXCEPT !.dateIdx = i]
      [] key = "topic"    -> [cols EXCEPT !.topicIdx = i]
      [] key = "speaker"  -> [cols EXCEPT !.speakerIdx = i]
      [] key = "location" -> [cols EXCEPT !.locationIdx = i]
      [] key = "time"     -> [cols EXCEPT !.timeIdx = i]
      [] OTHER            -> cols

\* readCSV lines 160-173 and readExcel lines 223-236: the loop over the header.
RECURSIVE noticeCols(_, _, _)
noticeCols(header, i, cols) ==
    IF i >= Len(header) THEN cols
    ELSE noticeCols(header, i + 1, noticeCell(headerKey(Cell(header, i)), i, cols))

(***************************************************************************)
(* The certificate generator's loaders                                     *)
(***************************************************************************)
CountCommas(s) == Cardinality({i \in 1..Len(s) : Ch(s, i) = ","})

CommaAt(s) == CHOOSE i \in 1..Len(s) : Ch(s, i) = ","

\* "Last, First" becomes "First Last"; anything else is trimmed.
convertNameFormatNoSwap(name) == TrimSpace(name)

convertNameFormat(name) ==
    IF CountCommas(name) = 1
    THEN LET first == TrimSpace(Drop(name, CommaAt(name)))
             last  == TrimSpace(Take(name, CommaAt(name) - 1))
         IN  first \o " " \o last
    ELSE TrimSpace(name)

\* readAttendance, lines 140-145: the rows below the header.
attendanceRow(row, nameCol) ==
    IF Len(row) > nameCol /\ Cell(row, nameCol) # ""
    THEN <<[Name |-> convertNameFormat(Cell(row, nameCol)), Email |-> ""]>>
    ELSE <<>>

RECURSIVE attendanceRows(_, _, _)
attendanceRows(rows, i, nameCol) ==
    IF i > Len(rows) THEN <<>>
    ELSE attendanceRow(rows[i], nameCol) \o attendanceRows(rows, i + 1, nameCol)

\* readAttendance from line 135 on, nameCol the column found in the header.
attendanceFrom(rows, nameCol) ==
    IF nameCol = -1
    THEN [err |-> "Name column not found", nameCol |-> nameCol, attendees |-> <<>>]
    ELSE [err |-> "", nameCol |-> nameCol, attendees |-> attendanceRows(rows, 2, nameCol)]

\* readAttendance, lines 105-148; nameCol is reported beside the function's results.
readAttendance(file) ==
    IF file.status = "unreadable" THEN [err |-> "open", nameCol |-> -1, attendees |-> <<>>]
    ELSE IF file.status = "nosheets"
         THEN [err |-> "no sheets found in attendance file", nameCol |-> -1,
               attendees |-> <<>>]
    ELSE attendanceFrom(file.rows,
                        IF Len(file.rows) > 0 THEN attendanceNameCol(file.rows[1], 0) ELSE -1)

\* The roster map as a set of pairs applied in row order: a later row replaces
\* an earlier one with the same name.
MapPut(m, k, v) == [x \in DOMAIN m \cup {k} |-> IF x = k THEN v ELSE m[x]]

EmptyMap == [x \in {} |-> ""]

\* readRoster, lines 328-338.
rosterEntry(name, email, m) ==
    IF name # "" /\ email # "" THEN MapPut(m, convertNameFormat(name), email) ELSE m

rosterRow(row, cols, m) ==
    IF Len(row) > cols.nameCol /\ Len(row) > cols.emailCol
    THEN rosterEntry(TrimSpace(Cell(row, cols.nameCol)), TrimSpace(Cell(row, cols.emailCol)), m)
    ELSE m

RECURSIVE rosterRows(_, _, _, _)
rosterRows(rows, i, cols, m) ==
    IF i > Len(rows) THEN m
    ELSE rosterRows(rows, i + 1, cols, rosterRow(rows[i], cols, m))

NoRosterCols == [nameCol |-> -1, emailCol |-> -1]

\* readRoster from line 323 on, cols the columns found in the header.
rosterFrom(rows, cols) ==
    IF cols.nameCol = -1 \/ cols.emailCol = -1
    THEN [err |-> "Name or Email column not found in roster", cols |-> cols,
          roster |-> EmptyMap]
    ELSE [err |-> "", cols |-> cols, roster |-> rosterRows(rows, 2, cols, EmptyMap)]

\* readRoster, lines 291-341; cols is reported beside the function's results.
readRoster(file) ==
    IF file.status = "unreadable"
    THEN [err |-> "open", cols |-> NoRosterCols, roster |-> EmptyMap]
    ELSE IF file.status = "nosheets"
         THEN [err |-> "no sheets found in roster file", cols |-> NoRosterCols,
               roster |-> EmptyMap]
    ELSE rosterFrom(file.rows,
                    IF Len(file.rows) > 0 THEN rosterCols(file.rows[1], 0, NoRosterCols)
                    ELSE NoRosterCols)

\* matchAttendeesWithEmails, lines 343-350.
matchAttendeesWithEmails(attendees, roster) ==
    [i \in 1..Len(attendees) |->
        IF attendees[i].Name \in DOMAIN roster
        THEN [attendees[i] EXCEPT !.Email = roster[attendees[i].Name]]
        ELSE attendees[i]]

(***************************************************************************)
(* getMostRecentEvent                                                      *)
(***************************************************************************)
NoEvent == [Date |-> "", Topic |-> "", Speaker |-> "", Location |-> "", Time |-> ""]

\* lines 214-229: the event of a row; a cell beyond the row's end reads as "".
calendarEventOf(row, cols) ==
    [Date     |-> Cell(row, cols.dateCol),
     Topic    |-> IF Len(row) > cols.topicCol THEN Cell(row, cols.topicCol) ELSE "",
     Speaker  |-> IF Len(row) > cols.speakerCol THEN Cell(row, cols.speakerCol) ELSE "",
     Location |-> IF cols.locationCol # -1 /\ Len(row) > cols.locationCol
                  THEN Cell(row, cols.locationCol) ELSE "",
     Time     |-> IF cols.timeCol # -1 /\ Len(row) > cols.timeCol
                  THEN Cell(row, cols.timeCol) ELSE ""]

validEvent(event) == IF event.Topic # "" /\ event.Speaker # "" THEN <<event>> ELSE <<>>

\* lines 209-231, one row: skipped when it has no date cell or an empty one.
calendarRow(row, cols) ==
    IF Len(row) > cols.dateCol /\ Cell(row, cols.dateCol) # ""
    THEN validEvent(calendarEventOf(row, cols))
    ELSE <<>>

\* lines 209-231: the rows below the header row that have a date, a topic and a speaker.
RECURSIVE calendarEvents(_, _, _)
calendarEvents(rows, i, cols) ==
    IF i > Len(rows) THEN <<>>
    ELSE calendarRow(rows[i], cols) \o calendarEvents(rows, i + 1, cols)

\* lines 241-246: the events whose date parses and lies strictly before now.
\* line 243: err == nil && eventDate.Before(now)
isPast(t, now) == t.ok /\ Before(t, now)

pastEventsOfNoParseCheck(events, now) ==
    SelectSeq(events, LAMBDA e : Before(parseFlexibleDate(e.Date), now))

pastEventsOf(events, now) ==
    SelectSeq(events, LAMBDA e : isPast(parseFlexibleDate(e.Date), now))

\* lines 255-263: by date, latest first; by string, greatest first, when a date fails.
lessByDateAscending(date1, date2, s1, s2) ==
    IF date1.ok /\ date2.ok THEN Before(date1, date2) ELSE StrGreater(s1, s2)

lessByDate(date1, date2, s1, s2) ==
    IF date1.ok /\ date2.ok THEN After(date1, date2) ELSE StrGreater(s1, s2)

\* The comparison handed to sort.Slice, lines 254-264.
eventLessAscending(e1, e2) ==
    lessByDateAscending(parseFlexibleDate(e1.Date), parseFlexibleDate(e2.Date), e1.Date, e2.Date)

eventLess(e1, e2) ==
    lessByDate(parseFlexibleDate(e1.Date), parseFlexibleDate(e2.Date), e1.Date, e2.Date)

\* sort.Slice on a slice of at most 12 elements is an insertion sort:
\* element i sinks while it is less than its left neighbour.
RECURSIVE sink(_, _)
sink(a, j) ==
    IF j > 1 /\ eventLess(a[j], a[j - 1])
    THEN sink([a EXCEPT ![j] = a[j - 1], ![j - 1] = a[j]], j - 1)
    ELSE a

RECURSIVE insertionSort(_, _)
insertionSort(a, i) == IF i > Len(a) THEN a ELSE insertionSort(sink(a, i), i + 1)

sortSlice(a) == insertionSort(a, 2)

\* lines 249-251: no past event, so the whole list is used.
pastOrAll(pastEvents, events) == IF Len(pastEvents) = 0 THEN events ELSE pastEvents

\* lines 233-266, events the valid rows.
mostRecentOf(events, cols, now) ==
    IF Len(events) = 0
    THEN [err |-> "no valid events found", cols |-> cols, event |-> NoEvent]
    ELSE [err |-> "", cols |-> cols,
          event |-> sortSlice(pastOrAll(pastEventsOf(events, now), events))[1]]

\* lines 203-266, cols the columns found in the header rows.
mostRecentFrom(rows, cols, now) ==
    IF cols.dateCol = -1 \/ cols.topicCol = -1 \/ cols.speakerCol = -1
    THEN [err |-> "required columns not found", cols |-> cols, event |-> NoEvent]
    ELSE mostRecentOf(calendarEvents(rows, cols.headerRow + 2, cols), cols, now)

\* getMostRecentEvent, lines 161-267; cols is reported beside the function's results.
getMostRecentEvent(file, now) ==
    IF file.status = "unreadable"
    THEN [err |-> "open", cols |-> NoCalendarCols, event |-> NoEvent]
    ELSE IF file.status = "nosheets"
         THEN [err |-> "no sheets found in calendar file", cols |-> NoCalendarCols,
               event |-> NoEvent]
    ELSE mostRecentFrom(file.rows, calendarCols(file.rows, 0, NoCalendarCols), now)

(***************************************************************************)
(* The notice generator's loaders                                          *)
(***************************************************************************)
\* readCSV lines 186-197 and readExcel lines 249-260: a row whose date parses.
noticeEventOf(date, row, cols) ==
    IF ~date.ok THEN <<>>
    ELSE <<[Date     |-> [day |-> date.day, sec |-> date.sec],
            Topic    |-> Cell(row, cols.topicIdx),
            Speaker  |-> Cell(row, cols.speakerIdx),
            Location |-> Cell(row, cols.locationIdx),
            Time     |-> Cell(row, cols.timeIdx)]>>

\* readCSV lines 181-184 and readExcel lines 244-247: a short row is skipped.
noticeRowEvent(row, cols) ==
    IF Len(row) <= cols.dateIdx \/ Len(row) <= cols.topicIdx
       \/ Len(row) <= cols.speakerIdx \/ Len(row) <= cols.locationIdx
       \/ Len(row) <= cols.timeIdx
    THEN <<>>
    ELSE noticeEventOf(parseDate(Cell(row, cols.dateIdx)), row, cols)

\* readCSV lines 180-198 and readExcel lines 243-261: the events in file order.
RECURSIVE noticeEvents(_, _, _)
noticeEvents(rows, i, cols) ==
    IF i > Len(rows) THEN <<>>
    ELSE noticeRowEvent(rows[i], cols) \o noticeEvents(rows, i + 1, cols)

\* readCSV from line 175 and readExcel from line 238, cols the columns found.
noticeFrom(rows, cols) ==
    IF cols.dateIdx = -1 \/ cols.topicIdx = -1 \/ cols.speakerIdx = -1
       \/ cols.locationIdx = -1 \/ cols.timeIdx = -1
    THEN [err |-> "spreadsheet must have columns: date, topic, speaker, location, time",
          cols |-> cols, events |-> <<>>]
    ELSE [err |-> "", cols |-> cols, events |-> noticeEvents(rows, 2, cols)]

\* readCSV from line 153 and readExcel from line 216, rows the records read.
noticeRows(rows) ==
    IF Len(rows) < 2
    THEN [err |-> "spreadsheet must have header and at least one data row",
          cols |-> NoNoticeCols, events |-> <<>>]
    ELSE noticeFrom(rows, noticeCols(rows[1], 0, NoNoticeCols))

\* csv.Reader.ReadAll, line 148: the reader is used as constructed, so a record
\* whose number of fields differs from the first record's is an error.
csvReadAll(rows) ==
    IF \E i \in 1..Len(rows) : Len(rows[i]) # Len(rows[1])
    THEN "wrong number of fields" ELSE ""

\* readCSV, lines 140-201; cols is reported beside the function's results.
readCSV(file) ==
    IF file.status # "ok" THEN [err |-> "open", cols |-> NoNoticeCols, events |-> <<>>]
    ELSE IF csvReadAll(file.rows) # ""
         THEN [err |-> csvReadAll(file.rows), cols |-> NoNoticeCols, events |-> <<>>]
    ELSE noticeRows(file.rows)

\* readExcel, lines 203-264.
readExcel(file) ==
    IF file.status # "ok" THEN [err |-> "open", cols |-> NoNoticeCols, events |-> <<>>]
    ELSE noticeRows(file.rows)

\* readSpreadsheet, lines 131-138: file.ext is filepath.Ext(filename).
readSpreadsheet(file) ==
    IF ToLower(file.ext) = ".xlsx" \/ ToLower(file.ext) = ".xls"
    THEN readExcel(file)
    ELSE readCSV(file)

(***************************************************************************)
(* The cells the parsers are called on: every string over a small alphabet *)
(* up to MaxStrLen characters, every layout of both lists written out for  *)
(* a few calendar dates, and cells a hand-kept spreadsheet holds.          *)
(***************************************************************************)
MaxStrLen == 3

Alphabet == {"0", "5", "-", ".", " ", "a"}

RECURSIVE StringsUpTo(_)
StringsUpTo(n) ==
    IF n = 0 THEN {""}
    ELSE LET S == StringsUpTo(n - 1) IN S \cup {s \o c : s \in S, c \in Alphabet}

DigitStr(n) == DigitSeq[n + 1]

RECURSIVE NumStr(_)
NumStr(n) == IF n < 10 THEN DigitStr(n) ELSE NumStr(n \div 10) \o DigitStr(n % 10)

Pad2(n) == IF n < 10 THEN "0" \o NumStr(n) ELSE NumStr(n)

\* The text time.Format writes for a date-only layout.
RECURSIVE FormatFrom(_, _, _)
FormatFrom(layout, i, d) ==
    IF i > Len(layout) THEN ""
    ELSE LET c == layout[i]
             piece == CASE c = "2006"    -> NumStr(d.y)
                        [] c = "01"      -> Pad2(d.m)
                        [] c = "1"       -> NumStr(d.m)
                        [] c = "02"      -> Pad2(d.d)
                        [] c = "2"       -> NumStr(d.d)
                        [] c = "Jan"     -> shortMonthNames[d.m]
                        [] c = "January" -> longMonthNames[d.m]
                        [] c \in {"15", "04", "05"} -> "00"
                        [] c = "Z07:00"  -> "Z"
                        [] OTHER         -> c
         IN  piece \o FormatFrom(layout, i + 1, d)

SampleDates == { [y |-> 2025, m |-> 10, d |-> 5], [y |-> 2025, m |-> 10, d |-> 15],
                 [y |-> 2024, m |-> 2, d |-> 29], [y |-> 2025, m |-> 1, d |-> 2] }

AllLayouts == {parseDateFormats[k] : k \in 1..Len(parseDateFormats)}
              \cup {parseFlexibleDateFormats[k] : k \in 1..Len(parseFlexibleDateFormats)}

WrittenDates == {FormatFrom(l, 1, d) : l \in AllLayouts, d \in SampleDates}

HandKeptCells == {"45678", "45678.5", "45678abc", "15th October 2025", "10/15", "TBD",
                  "2/30/2025", "13/1/2025", "October 15 2025", " 2025-10-15",
                  "2025-10-15T12:30:00+02:00", "-45678", "0", "0.0", "+7",
                  "1e3", "5e-1", "5e", "1e400", "NaN"}

DateInputs == StringsUpTo(MaxStrLen) \cup WrittenDates \cup HandKeptCells

DateInit ==
    /\ dateStr \in DateInputs
    /\ dateOut = Unset
    /\ flexOut = Unset

CallParseDate ==
    /\ dateOut = Unset
    /\ dateOut' = parseDate(dateStr)
    /\ UNCHANGED <<dateStr, flexOut, hdrVars, selVars, noticeVars, certVars, nameVars>>

CallParseFlexibleDate ==
    /\ flexOut = Unset
    /\ flexOut' = parseFlexibleDate(dateStr)
    /\ UNCHANGED <<dateStr, dateOut, hdrVars, selVars, noticeVars, certVars, nameVars>>

DateNext == CallParseDate \/ CallParseFlexibleDate

DateIdle == dateStr = "" /\ dateOut = Unset /\ flexOut = Unset

(***************************************************************************)
(* The loaders, each called on a workbook whose header row is drawn cell   *)
(* by cell; the calendar may carry a banner row above a second header row. *)
(***************************************************************************)
HeaderChoices ==
    << {"Event Date", " date ", "Name"},
       {"Topic", "topic", "Email"},
       {"Speaker Name", "speaker", "Email (username)"},
       {"LOCATION", "date"},
       {"time", "E-mail"} >>

SecondRowChoices == << {"Date", "Banner"}, {"Topic", "Speaker"}, {"Speaker", "Date"} >>

\* Every row of n cells whose cell k is drawn from choices[k].
RECURSIVE RowsOfLen(_, _)
RowsOfLen(choices, n) ==
    IF n = 0 THEN {<<>>}
    ELSE {Append(r, c) : r \in RowsOfLen(choices, n - 1), c \in choices[n]}

HeaderRows == UNION {RowsOfLen(HeaderChoices, n) : n \in 0..Len(HeaderChoices)}

SecondRows == RowsOfLen(SecondRowChoices, Len(SecondRowChoices))

\* One data row; each cell names its column and parses as a date.
DataRow == <<"1/1/2025", "1/2/2025", "1/3/2025", "1/4/2025", "1/5/2025">>

Loaders == {"attendance", "roster", "calendar", "csv", "excel"}

NoCols == [name |-> -1, email |-> -1, date |-> -1, topic |-> -1, speaker |-> -1,
           location |-> -1, time |-> -1, headerRow |-> 0]

\* A CSV record has at least one field; the data row of a CSV file is as long
\* as the header or, in a ragged file, of full length.  A file may also hold
\* the header alone, or nothing.
HdrInit ==
    /\ hdrLoader \in Loaders
    /\ \/ hdrFile = [status |-> "ok", rows |-> <<>>]
       \/ \E h \in HeaderRows :
          \/ /\ hdrLoader = "csv" => Len(h) > 0
             /\ hdrFile \in {[status |-> "ok", rows |-> <<h, DataRow>>],
                             [status |-> "ok", rows |-> <<h>>]}
          \/ /\ hdrLoader = "csv" /\ Len(h) > 0
             /\ hdrFile = [status |-> "ok", rows |-> <<h, SubSeq(DataRow, 1, Len(h))>>]
          \/ /\ hdrLoader = "calendar"
             /\ \E h2 \in SecondRows : hdrFile = [status |-> "ok", rows |-> <<h, h2, DataRow>>]
    /\ hdrCols = NoCols
    /\ hdrErr = ""
    /\ hdrDone = FALSE

AttendanceHeader ==
    /\ hdrLoader = "attendance" /\ ~hdrDone
    /\ \E r \in {readAttendance(hdrFile)} :
          /\ hdrCols' = [NoCols EXCEPT !.name = r.nameCol]
          /\ hdrErr' = r.err
    /\ hdrDone' = TRUE
    /\ UNCHANGED <<hdrLoader, hdrFile, dateVars, selVars, noticeVars, certVars, nameVars>>

RosterHeader ==
    /\ hdrLoader = "roster" /\ ~hdrDone
    /\ \E r \in {readRoster(hdrFile)} :
          /\ hdrCols' = [NoCols EXCEPT !.name = r.cols.nameCol, !.email = r.cols.emailCol]
          /\ hdrErr' = r.err
    /\ hdrDone' = TRUE
    /\ UNCHANGED <<hdrLoader, hdrFile, dateVars, selVars, noticeVars, certVars, nameVars>>

CalendarHeader ==
    /\ hdrLoader = "calendar" /\ ~hdrDone
    /\ \E r \in {getMostRecentEvent(hdrFile, [day |-> 0, sec |-> 0])} :
          /\ hdrCols' = [NoCols EXCEPT !.date = r.cols.dateCol, !.topic = r.cols.topicCol,
                                        !.speaker = r.cols.speakerCol,
                                        !.location = r.cols.locationCol,
                                        !.time = r.cols.timeCol,
                                        !.headerRow = r.cols.headerRow]
          /\ hdrErr' = r.err
    /\ hdrDone' = TRUE
    /\ UNCHANGED <<hdrLoader, hdrFile, dateVars, selVars, noticeVars, certVars, nameVars>>

NoticeHeader(r) ==
    /\ ~hdrDone
    /\ hdrCols' = [NoCols EXCEPT !.date = r.cols.dateIdx, !.topic = r.cols.topicIdx,
                                  !.speaker = r.cols.speakerIdx,
                                  !.location = r.cols.locationIdx, !.time = r.cols.timeIdx]
    /\ hdrErr' = r.err
    /\ hdrDone' = TRUE
    /\ UNCHANGED <<hdrLoader, hdrFile, dateVars, selVars, noticeVars, certVars, nameVars>>

CSVHeader == hdrLoader = "csv" /\ \E r \in {readCSV(hdrFile)} : NoticeHeader(r)

ExcelHeader == hdrLoader = "excel" /\ \E r \in {readExcel(hdrFile)} : NoticeHeader(r)

HdrNext == AttendanceHeader \/ RosterHeader \/ CalendarHeader \/ CSVHeader \/ ExcelHeader

HdrIdle ==
    /\ hdrLoader = "" /\ hdrFile = [status |-> "ok", rows |-> <<>>]
    /\ hdrCols = NoCols /\ hdrErr = "" /\ hdrDone = FALSE

(***************************************************************************)
(* getMostRecentEvent, called on a calendar of up to MaxEvents rows        *)
(***************************************************************************)
MaxEvents == 3

At(y, m, d, sec) == [day |-> DayNumber(y, m, d), sec |-> sec]

CalendarNows == {At(2023, 1, 1, 43200), At(2024, 6, 1, 0), At(2025, 1, 1, 43200)}

\* A calendar row: a date cell, a topic naming the row, a speaker; or a row
\* that is no valid event (no date, or no topic).
CalendarDateCells == {"1/1/2024", "6/1/2024", "2024-06-01", "12/1/2030", "TBD"}

CalendarRows(k) ==
    {<<d, "T" \o NumStr(k), "S" \o NumStr(k)>> : d \in CalendarDateCells}
    \cup {<<"", "T" \o NumStr(k), "S" \o NumStr(k)>>, <<"1/1/2024", "", "S" \o NumStr(k)>>}

RECURSIVE CalendarBodies(_)
CalendarBodies(n) ==
    IF n = 0 THEN {<<>>}
    ELSE {Append(b, r) : b \in CalendarBodies(n - 1), r \in CalendarRows(n)}

CalendarFiles ==
    {[status |-> "ok", rows |-> <<<<"Date", "Topic", "Speaker">>>> \o b] :
        b \in UNION {CalendarBodies(n) : n \in 0..MaxEvents}}

SelInit ==
    /\ selFile \in CalendarFiles
    /\ selNow \in CalendarNows
    /\ selOut = [err |-> "", cols |-> NoCalendarCols, event |-> NoEvent]
    /\ selDone = FALSE

CallGetMostRecentEvent ==
    /\ ~selDone
    /\ selOut' = getMostRecentEvent(selFile, selNow)
    /\ selDone' = TRUE
    /\ UNCHANGED <<selFile, selNow, dateVars, hdrVars, noticeVars, certVars, nameVars>>

SelNext == CallGetMostRecentEvent

SelIdle ==
    /\ selFile = [status |-> "ok", rows |-> <<>>] /\ selNow = [day |-> 0, sec |-> 0]
    /\ selOut = [err |-> "", cols |-> NoCalendarCols, event |-> NoEvent] /\ selDone = FALSE

(***************************************************************************)
(* The notice generator's main                                             *)
(***************************************************************************)
\* time.Duration is an int64 count of nanoseconds: Sub saturates at
\* 2^63-1 ns = 106751 days 85636.854775807 s.
\* Time.Sub: the difference, or the largest or smallest Duration when it does not fit.
saturate(d) ==
    IF DurLess(MaxDuration, d) THEN AboveMaxDuration
    ELSE IF DurLess(d, MinDuration) THEN BelowMinDuration
    ELSE d

Sub(t, u) == saturate(Instant(t.day - u.day, t.sec - u.sec))

Nil == [ref |-> "nil"]

\* What closestEvent points to: the loop variable of its own iteration, which
\* keeps the event it was given, or the one variable every iteration assigns.
AddressOfEvent(event) ==
    IF nPerIteration THEN [ref |-> "iteration", val |-> event] ELSE [ref |-> "loop"]

Deref(ptr) == IF ptr.ref = "iteration" THEN ptr.val ELSE nEventVar

NoticeNows == {At(2025, 10, 10, 43200), At(2025, 10, 15, 0), At(2026, 1, 1, 0)}

NoticeDateCells == {"2025-10-01", "10/15/2025", "2025-10-20", "TBD",
                    "9999-12-31", "5000-01-01"}

NoticeRow(k, date) ==
    <<date, "T" \o NumStr(k), "S" \o NumStr(k), "Room " \o NumStr(k), "noon">>

RECURSIVE NoticeBodies(_)
NoticeBodies(n) ==
    IF n = 0 THEN {<<>>}
    ELSE {Append(b, NoticeRow(n, d)) : b \in NoticeBodies(n - 1), d \in NoticeDateCells}

UsualNoticeHeader == <<"Date", " topic", "SPEAKER", "Location ", "time">>

\* The files the notice generator is run on: CSV calendars of up to MaxEvents
\* rows, short workbooks, files whose header lacks a column, a ragged CSV
\* file, and files that cannot be opened.
NoticeExts == {".csv", ".XLSX", ".xls"}

NoticeFiles ==
    {[ext |-> ".csv", status |-> "ok", rows |-> <<UsualNoticeHeader>> \o b] :
        b \in UNION {NoticeBodies(n) : n \in 0..MaxEvents}}
    \cup {[ext |-> e, status |-> "ok", rows |-> <<UsualNoticeHeader>> \o b] :
             e \in NoticeExts \ {".csv"}, b \in NoticeBodies(0) \cup NoticeBodies(1)}
    \cup {[ext |-> e, status |-> "ok", rows |-> << h, NoticeRow(1, "2025-10-20") >>] :
             e \in NoticeExts,
             h \in {<<"Event Date", "topic", "speaker", "location", "time">>,
                    <<"date", "topic", "speaker", "location">>}}
    \cup {[ext |-> e, status |-> "unreadable", rows |-> <<>>] : e \in NoticeExts}

NoEventValue == [Date |-> [day |-> 0, sec |-> 0], Topic |-> "", Speaker |-> "",
                 Location |-> "", Time |-> ""]

NoticeInit ==
    /\ nArgs \in {0, 1}
    /\ nFile \in NoticeFiles
    /\ nArgs = 0 => nFile = [ext |-> ".csv", status |-> "unreadable", rows |-> <<>>]
    /\ nNow \in NoticeNows
    /\ nPerIteration \in BOOLEAN
    /\ npc = "start"
    /\ nEvents = <<>>
    /\ nIdx = 0
    /\ nEventVar = NoEventValue
    /\ nClosest = Nil
    /\ nMinDiff = [day |-> 0, sec |-> 0]
    /\ nOutput = "absent"
    /\ nRendered = Nil
    /\ nStdout = <<>>
    /\ nStderr = <<>>
    /\ nExit = -1

NoticeIdle ==
    /\ nArgs = 0 /\ nFile = [ext |-> ".csv", status |-> "unreadable", rows |-> <<>>]
    /\ nNow = [day |-> 0, sec |-> 0] /\ nPerIteration = TRUE
    /\ npc = "idle" /\ nEvents = <<>> /\ nIdx = 0 /\ nEventVar = NoEventValue
    /\ nClosest = Nil /\ nMinDiff = [day |-> 0, sec |-> 0] /\ nOutput = "absent"
    /\ nRendered = Nil /\ nStdout = <<>> /\ nStderr = <<>> /\ nExit = -1

NoticeOthers == <<dateVars, hdrVars, selVars, certVars, nameVars>>

\* lines 61-65
NoticeUsage ==
    /\ npc = "start" /\ nArgs < 1
    /\ nStderr' = Append(nStderr, "Usage")
    /\ nExit' = 1
    /\ npc' = "exit"
    /\ UNCHANGED <<nArgs, nFile, nNow, nPerIteration, nEvents, nIdx, nEventVar, nClosest,
                   nMinDiff, nOutput, nRendered, nStdout, NoticeOthers>>

\* lines 74-78
NoticeReadSpreadsheet ==
    /\ npc = "start" /\ nArgs >= 1
    /\ \E r \in {readSpreadsheet(nFile)} :
          IF r.err # ""
          THEN /\ nStderr' = Append(nStderr, "Error reading spreadsheet")
               /\ nExit' = 1
               /\ npc' = "exit"
               /\ UNCHANGED nEvents
          ELSE /\ nEvents' = r.events
               /\ npc' = "loop"
               /\ UNCHANGED <<nStderr, nExit>>
    /\ UNCHANGED <<nArgs, nFile, nNow, nPerIteration, nIdx, nEventVar, nClosest, nMinDiff,
                   nOutput, nRendered, nStdout, NoticeOthers>>

\* lines 84-92, one iteration
NoticeLoopIterNotBefore ==
    /\ npc = "loop" /\ nIdx < Len(nEvents)
    /\ LET event == nEvents[nIdx + 1]
           diff  == Sub(event.Date, nNow)
       IN  /\ nEventVar' = event
           /\ IF ~Before(event.Date, nNow) /\ (nClosest = Nil \/ DurLess(diff, nMinDiff))
              THEN nClosest' = AddressOfEvent(event) /\ nMinDiff' = diff
              ELSE UNCHANGED <<nClosest, nMinDiff>>
    /\ nIdx' = nIdx + 1
    /\ UNCHANGED <<nArgs, nFile, nNow, nPerIteration, npc, nEvents, nOutput, nRendered,
                   nStdout, nStderr, nExit, NoticeOthers>>

NoticeLoopIter ==
    /\ npc = "loop" /\ nIdx < Len(nEvents)
    /\ LET event == nEvents[nIdx + 1]
           diff  == Sub(event.Date, nNow)
       IN  /\ nEventVar' = event
           /\ IF After(event.Date, nNow) /\ (nClosest = Nil \/ DurLess(diff, nMinDiff))
              THEN nClosest' = AddressOfEvent(event) /\ nMinDiff' = diff
              ELSE UNCHANGED <<nClosest, nMinDiff>>
    /\ nIdx' = nIdx + 1
    /\ UNCHANGED <<nArgs, nFile, nNow, nPerIteration, npc, nEvents, nOutput, nRendered,
                   nStdout, nStderr, nExit, NoticeOthers>>

\* lines 94-97
NoticeNoFutureEvents ==
    /\ npc = "loop" /\ nIdx = Len(nEvents) /\ nClosest = Nil
    /\ nStdout' = Append(nStdout, "No future events found in the spreadsheet.")
    /\ nExit' = 0
    /\ npc' = "exit"
    /\ UNCHANGED <<nArgs, nFile, nNow, nPerIteration, nEvents, nIdx, nEventVar, nClosest,
                   nMinDiff, nOutput, nRendered, nStderr, NoticeOthers>>

\* lines 99-119: the template data is read through closestEvent, then os.Create
NoticeCreateOutput ==
    /\ npc = "loop" /\ nIdx = Len(nEvents) /\ nClosest # Nil
    /\ nRendered' = Deref(nClosest)
    /\ \E created \in BOOLEAN :
          IF created
          THEN /\ nOutput' = "created"
               /\ npc' = "execute"
               /\ UNCHANGED <<nStderr, nExit>>
          ELSE /\ nStderr' = Append(nStderr, "Error creating output file")
               /\ nExit' = 1
               /\ npc' = "exit"
               /\ UNCHANGED nOutput
    /\ UNCHANGED <<nArgs, nFile, nNow, nPerIteration, nEvents, nIdx, nEventVar, nClosest,
                   nMinDiff, nStdout, NoticeOthers>>

\* lines 122-128
NoticeExecuteTemplate ==
    /\ npc = "execute"
    /\ \E executed \in BOOLEAN :
          IF executed
          THEN /\ nOutput' = "written"
               /\ nStdout' = Append(nStdout, "Generated notice")
               /\ nExit' = 0
               /\ UNCHANGED nStderr
          ELSE /\ nStderr' = Append(nStderr, "Error executing template")
               /\ nExit' = 1
               /\ UNCHANGED <<nOutput, nStdout>>
    /\ npc' = "exit"
    /\ UNCHANGED <<nArgs, nFile, nNow, nPerIteration, nEvents, nIdx, nEventVar, nClosest,
                   nMinDiff, nRendered, NoticeOthers>>

NoticeNext ==
    \/ NoticeUsage
    \/ NoticeReadSpreadsheet
    \/ NoticeLoopIter
    \/ NoticeNoFutureEvents
    \/ NoticeCreateOutput
    \/ NoticeExecuteTemplate

(***************************************************************************)
(* The certificate generator's main                                        *)
(***************************************************************************)
MaxAttendees == 3

Unreadable == [status |-> "unreadable", rows |-> <<>>]

NoSheets == [status |-> "nosheets", rows |-> <<>>]

RosterFiles ==
    { [status |-> "ok", rows |-> << <<"Member Name", "Email Address">>,
                                    <<"Doe, Jon", " jon@lrec.org ">>,
                                    <<"Ann Lee", "ann@lrec.org">>,
                                    <<"No Mail", "">> >>],
      [status |-> "ok", rows |-> << <<"Name", "Phone">>, <<"Doe, Jon", "555">> >>],
      Unreadable, NoSheets }

AttendeeCells == {"Doe, Jon", " Ann Lee", "Zed Roe", ""}

RECURSIVE AttendanceBodies(_)
AttendanceBodies(n) ==
    IF n = 0 THEN {<<>>}
    ELSE {Append(b, <<"x", c>>) : b \in AttendanceBodies(n - 1), c \in AttendeeCells}

AttendanceFiles ==
    {[status |-> "ok", rows |-> << <<"Time", "Full Name">> >> \o b] :
        b \in UNION {AttendanceBodies(n) : n \in 0..MaxAttendees}}
    \cup {[status |-> "ok", rows |-> << <<"Time", "Member">>, <<"x", "Zed Roe">> >>],
          [status |-> "ok", rows |-> <<>>], Unreadable, NoSheets}

MainCalendarFiles ==
    { [status |-> "ok", rows |-> << <<"Date", "Topic", "Speaker">>,
                                    <<"1/1/2024", "T1", "S1">>,
                                    <<"6/1/2024", "T2", "S2">> >>],
      [status |-> "ok", rows |-> << <<"Date", "Topic">>, <<"1/1/2024", "T1">> >>],
      [status |-> "ok", rows |-> << <<"Date", "Topic", "Speaker">>, <<"", "T1", "S1">> >>],
      Unreadable, NoSheets }

CertInit ==
    /\ cEnv \in {"missing", "nocreds", "ok"}
    /\ cRosterFile \in RosterFiles
    /\ cAttFile \in AttendanceFiles
    /\ cCalFile \in MainCalendarFiles
    /\ cNow = At(2025, 1, 1, 43200)
    /\ cpc = "start"
    /\ cRoster = EmptyMap
    /\ cAttendees = <<>>
    /\ cEvent = NoEvent
    /\ cIdx = 0
    /\ cGenerated = <<>>
    /\ cFiles = {}
    /\ cDialed = <<>>
    /\ cDelivered = {}
    /\ cErrors = {}
    /\ sentCount = 0
    /\ cSummary = <<>>
    /\ cExit = -1

CertIdle ==
    /\ cEnv = "ok" /\ cRosterFile = Unreadable /\ cAttFile = Unreadable
    /\ cCalFile = Unreadable /\ cNow = [day |-> 0, sec |-> 0] /\ cpc = "idle"
    /\ cRoster = EmptyMap /\ cAttendees = <<>> /\ cEvent = NoEvent /\ cIdx = 0
    /\ cGenerated = <<>> /\ cFiles = {} /\ cDialed = <<>> /\ cDelivered = {}
    /\ cErrors = {} /\ sentCount = 0 /\ cSummary = <<>> /\ cExit = -1

CertOthers == <<dateVars, hdrVars, selVars, noticeVars, nameVars>>

CertInputs == <<cEnv, cRosterFile, cAttFile, cCalFile, cNow>>

CertOutputs == <<cGenerated, cFiles, cDialed, cDelivered, cErrors, sentCount, cSummary>>

\* log.Fatalf: the message goes to standard error and the process exits 1.
Fatal == cpc' = "exit" /\ cExit' = 1

\* lines 40-43
CertLoadEnv ==
    /\ cpc = "start"
    /\ IF cEnv = "missing" THEN Fatal ELSE cpc' = "credentials" /\ UNCHANGED cExit
    /\ UNCHANGED <<CertInputs, cRoster, cAttendees, cEvent, cIdx, CertOutputs, CertOthers>>

\* lines 46-55
CertCheckCredentials ==
    /\ cpc = "credentials"
    /\ IF cEnv = "nocreds" THEN Fatal ELSE cpc' = "roster" /\ UNCHANGED cExit
    /\ UNCHANGED <<CertInputs, cRoster, cAttendees, cEvent, cIdx, CertOutputs, CertOthers>>

\* lines 58-61
CertReadRosterIgnoringError ==
    /\ cpc = "roster"
    /\ cRoster' = readRoster(cRosterFile).roster
    /\ cpc' = "attendance"
    /\ UNCHANGED <<CertInputs, cAttendees, cEvent, cIdx, cExit, CertOutputs, CertOthers>>

CertReadRoster ==
    /\ cpc = "roster"
    /\ \E r \in {readRoster(cRosterFile)} :
          IF r.err # "" THEN Fatal /\ UNCHANGED cRoster
          ELSE cRoster' = r.roster /\ cpc' = "attendance" /\ UNCHANGED cExit
    /\ UNCHANGED <<CertInputs, cAttendees, cEvent, cIdx, CertOutputs, CertOthers>>

\* lines 64-67
CertReadAttendance ==
    /\ cpc = "attendance"
    /\ \E r \in {readAttendance(cAttFile)} :
          IF r.err # "" THEN Fatal /\ UNCHANGED cAttendees
          ELSE cAttendees' = r.attendees /\ cpc' = "match" /\ UNCHANGED cExit
    /\ UNCHANGED <<CertInputs, cRoster, cEvent, cIdx, CertOutputs, CertOthers>>

\* line 70
CertMatch ==
    /\ cpc = "match"
    /\ cAttendees' = matchAttendeesWithEmails(cAttendees, cRoster)
    /\ cpc' = "calendar"
    /\ UNCHANGED <<CertInputs, cRoster, cEvent, cIdx, cExit, CertOutputs, CertOthers>>

\* lines 73-80
CertReadCalendar ==
    /\ cpc = "calendar"
    /\ \E r \in {getMostRecentEvent(cCalFile, cNow)} :
          IF r.err # "" THEN Fatal /\ UNCHANGED cEvent
          ELSE cEvent' = r.event /\ cpc' = "loop" /\ UNCHANGED cExit
    /\ UNCHANGED <<CertInputs, cRoster, cAttendees, cIdx, CertOutputs, CertOthers>>

\* sendIndividualCertificateEmail, lines 452-494: whether the SMTP server was
\* dialed, and the error returned; delivered tells whether DialAndSend succeeds.
sendWithoutRecipientCheck(attendee, delivered) ==
    [dialed |-> TRUE, err |-> IF delivered THEN "" ELSE "failed to send email"]

sendIndividualCertificateEmail(attendee, delivered) ==
    IF attendee.Email = ""
    THEN [dialed |-> FALSE, err |-> "no email address for attendee"]
    ELSE [dialed |-> TRUE, err |-> IF delivered THEN "" ELSE "failed to send email"]

\* lines 84-100, one iteration; rendered tells whether OutputFileAndClose succeeds.
CertLoopIterAbortOnError ==
    /\ cpc = "loop" /\ cIdx < Len(cAttendees)
    /\ cIdx' = cIdx + 1
    /\ cGenerated' = Append(cGenerated, cIdx + 1)
    /\ \E rendered \in BOOLEAN, delivered \in BOOLEAN :
          IF ~rendered
          THEN /\ cErrors' = cErrors \cup {[attendee |-> cIdx + 1, what |-> "certificate"]}
               /\ Fatal
               /\ UNCHANGED <<cFiles, cDialed, cDelivered, sentCount>>
          ELSE LET sent == sendIndividualCertificateEmail(cAttendees[cIdx + 1], delivered)
               IN  /\ cFiles' = cFiles \cup {cIdx + 1}
                   /\ cDialed' = IF sent.dialed THEN Append(cDialed, cIdx + 1) ELSE cDialed
                   /\ UNCHANGED <<cpc, cExit>>
                   /\ IF sent.err # ""
                      THEN /\ cErrors' = cErrors \cup {[attendee |-> cIdx + 1, what |-> "email"]}
                           /\ UNCHANGED <<cDelivered, sentCount>>
                      ELSE /\ sentCount' = sentCount + 1
                           /\ cDelivered' = cDelivered \cup
                                 {[attendee |-> cIdx + 1, to |-> cAttendees[cIdx + 1].Email]}
                           /\ UNCHANGED cErrors
    /\ UNCHANGED <<CertInputs, cRoster, cAttendees, cEvent, cSummary, CertOthers>>

CertLoopIter ==
    /\ cpc = "loop" /\ cIdx < Len(cAttendees)
    /\ cIdx' = cIdx + 1
    /\ cGenerated' = Append(cGenerated, cIdx + 1)
    /\ \E rendered \in BOOLEAN, delivered \in BOOLEAN :
          IF ~rendered
          THEN /\ cErrors' = cErrors \cup {[attendee |-> cIdx + 1, what |-> "certificate"]}
               /\ UNCHANGED <<cFiles, cDialed, cDelivered, sentCount>>
          ELSE LET sent == sendIndividualCertificateEmail(cAttendees[cIdx + 1], delivered)
               IN  /\ cFiles' = cFiles \cup {cIdx + 1}
                   /\ cDialed' = IF sent.dialed THEN Append(cDialed, cIdx + 1) ELSE cDialed
                   /\ IF sent.err # ""
                      THEN /\ cErrors' = cErrors \cup {[attendee |-> cIdx + 1, what |-> "email"]}
                           /\ UNCHANGED <<cDelivered, sentCount>>
                      ELSE /\ sentCount' = sentCount + 1
                           /\ cDelivered' = cDelivered \cup
                                 {[attendee |-> cIdx + 1, to |-> cAttendees[cIdx + 1].Email]}
                           /\ UNCHANGED cErrors
    /\ UNCHANGED <<CertInputs, cpc, cRoster, cAttendees, cEvent, cSummary, cExit, CertOthers>>

\* line 102, and the return from main
CertSummary ==
    /\ cpc = "loop" /\ cIdx = Len(cAttendees)
    /\ cSummary' = <<Len(cAttendees), sentCount>>
    /\ cpc' = "exit"
    /\ cExit' = 0
    /\ UNCHANGED <<CertInputs, cRoster, cAttendees, cEvent, cIdx, cGenerated, cFiles,
                   cDialed, cDelivered, cErrors, sentCount, CertOthers>>

CertNext ==
    \/ CertLoadEnv
    \/ CertCheckCredentials
    \/ CertReadRoster
    \/ CertReadAttendance
    \/ CertMatch
    \/ CertReadCalendar
    \/ CertLoopIter
    \/ CertSummary

(***************************************************************************)
(* Name normalization: one person written in the roster and in the         *)
(* attendance sheet, each in either form and with stray blanks; also cells *)
(* that are no person's name.                                              *)
(***************************************************************************)
People == {[first |-> "Jon", last |-> "Doe"],
           [first |-> "Ann", last |-> "Lee"],
           [first |-> "Jon A.", last |-> "Van Doe"]}

Pads == {"", " ", "\t "}

\* "Last, First", blanks allowed around both parts.
CommaForms(p) ==
    {a \o p.last \o b \o "," \o c \o p.first \o d :
        a \in {"", " "}, b \in {"", " "}, c \in Pads, d \in {"", " "}}

\* "First Last", blanks allowed around it.
PlainForms(p) == {a \o p.first \o " " \o p.last \o d : a \in Pads, d \in Pads}

OddNameCells == {"", " ", "Doe,", ", Jon", "Doe, Jon, Jr.", "Jon  Doe", "jon doe"}

NameCells == UNION {CommaForms(p) \cup PlainForms(p) : p \in People} \cup OddNameCells

NameEmail == "member@example.org"

NameInit ==
    /\ nameRosterCell \in NameCells
    /\ nameAttCell \in NameCells
    /\ nameOut = ""
    /\ nameRoster = EmptyMap
    /\ nameAttendees = <<>>
    /\ namePc = {}

\* convertNameFormat, called on the attendance cell.
CallConvertNameFormat ==
    /\ "convert" \notin namePc
    /\ nameOut' = convertNameFormat(nameAttCell)
    /\ namePc' = namePc \cup {"convert"}
    /\ UNCHANGED <<nameRosterCell, nameAttCell, nameRoster, nameAttendees,
                   dateVars, hdrVars, selVars, noticeVars, certVars>>

\* main lines 58-70 on a roster and an attendance sheet of one row each.
LoadAndMatchNames ==
    /\ "match" \notin namePc
    /\ \E r \in {readRoster([status |-> "ok",
                              rows |-> << <<"Name", "Email">>,
                                          <<nameRosterCell, NameEmail>> >>])} :
       \E a \in {readAttendance([status |-> "ok",
                                  rows |-> << <<"Name">>, <<nameAttCell>> >>])} :
          /\ nameRoster' = r.roster
          /\ nameAttendees' = matchAttendeesWithEmails(a.attendees, r.roster)
    /\ namePc' = namePc \cup {"match"}
    /\ UNCHANGED <<nameRosterCell, nameAttCell, nameOut,
                   dateVars, hdrVars, selVars, noticeVars, certVars>>

NameNext == CallConvertNameFormat \/ LoadAndMatchNames

NameIdle ==
    /\ nameRosterCell = "" /\ nameAttCell = "" /\ nameOut = ""
    /\ nameRoster = EmptyMap /\ nameAttendees = <<>> /\ namePc = {}

(***************************************************************************)
(* Specifications                                                          *)
(***************************************************************************)
\* One run of either program.
Init ==
    /\ DateIdle /\ HdrIdle /\ SelIdle /\ NameIdle
    /\ \/ NoticeInit /\ CertIdle
       \/ CertInit /\ NoticeIdle

Next == NoticeNext \/ CertNext

Spec == Init /\ [][Next]_vars

InitSelect == SelInit /\ DateIdle /\ HdrIdle /\ NoticeIdle /\ CertIdle /\ NameIdle

SpecSelect == InitSelect /\ [][SelNext]_vars

InitDate == DateInit /\ HdrIdle /\ SelIdle /\ NoticeIdle /\ CertIdle /\ NameIdle

SpecDate == InitDate /\ [][DateNext]_vars

InitHeader == HdrInit /\ DateIdle /\ SelIdle /\ NoticeIdle /\ CertIdle /\ NameIdle

SpecHeader == InitHeader /\ [][HdrNext]_vars

InitName == NameInit /\ DateIdle /\ HdrIdle /\ SelIdle /\ NoticeIdle /\ CertIdle

SpecName == InitName /\ [][NameNext]_vars

(***************************************************************************)
(* Claims about the notice generator's selection                           *)
(***************************************************************************)
\* The loaded events dated strictly after now, by position in the loaded order.
FutureEvents == {i \in 1..Len(nEvents) : After(nEvents[i].Date, nNow)}

TimeUntil(i) == Sub(nEvents[i].Date, nNow)

\* The future event with the smallest time-until, the first one among equals.
NearestFuture ==
    CHOOSE i \in FutureEvents :
        \A j \in FutureEvents :
            \/ DurLess(TimeUntil(i), TimeUntil(j))
            \/ (TimeUntil(i) = TimeUntil(j) /\ i <= j)

NoticeLoaded ==
    /\ npc \in {"loop", "execute", "exit"}
    /\ nStderr = <<>> \/ nStderr[1] \notin {"Usage", "Error reading spreadsheet"}

NoFutureLoaded == NoticeLoaded /\ \A i \in 1..Len(nEvents) : ~After(nEvents[i].Date, nNow)

\* C4: when no loaded event is dated strictly after now, no output file is ever
\* created or written, the run never exits non-zero, and it ends with exit code 0
\* after printing the message that there are no future events.
C4_NoFutureEventExitsZeroWithoutFile ==
    NoFutureLoaded =>
        /\ nOutput = "absent"
        /\ npc # "execute"
        /\ nExit \in {-1, 0}
        /\ nStderr = <<>>
        /\ (npc = "exit" =>
                /\ nExit = 0
                /\ nStdout = <<"No future events found in the spreadsheet.">>)

\* A finished run over two or more loaded events, none in the future, one of them
\* dated exactly now.
C4_Witness ==
    /\ NoFutureLoaded
    /\ npc = "exit"
    /\ Len(nEvents) >= 2
    /\ \E i \in 1..Len(nEvents) : nEvents[i].Date = nNow

(***************************************************************************)
(* Claims about getMostRecentEvent                                         *)
(***************************************************************************)
\* The valid events of the calendar drawn: the rows below the header that have
\* a date, a topic and a speaker (the header is Date, Topic, Speaker).
ValidRows == {i \in 2..Len(selFile.rows) : \A k \in 1..3 : selFile.rows[i][k] # ""}

RowDate(i) == parseFlexibleDate(selFile.rows[i][1])

PastRows == {i \in ValidRows : RowDate(i).ok /\ Before(RowDate(i), selNow)}

Returned == selDone /\ selOut.err = ""

ReturnedDate == parseFlexibleDate(selOut.event.Date)

\* C2: when some valid event has a date that parses and lies strictly before now,
\* the event returned is one of those past events with the latest date of them,
\* so never an event dated at or after now.
C2_ReturnsLatestPastEvent ==
    (selDone /\ PastRows # {}) =>
        /\ selOut.err = ""
        /\ \E i \in PastRows :
              /\ selOut.event.Date = selFile.rows[i][1]
              /\ selOut.event.Topic = selFile.rows[i][2]
              /\ \A j \in PastRows : ~After(RowDate(j), RowDate(i))
        /\ Before(ReturnedDate, selNow)

\* Two past events listed oldest first, with a future event and an unparsed one.
C2_Witness ==
    /\ Returned
    /\ \E i, j \in PastRows : i < j /\ Before(RowDate(i), RowDate(j))
                              /\ selOut.event.Topic = selFile.rows[j][2]
    /\ \E i \in ValidRows : RowDate(i).ok /\ After(RowDate(i), selNow)

\* C3 as stated: the event returned always has a date parseFlexibleDate parses.
C3_ReturnedDateAlwaysParses == Returned => ReturnedDate.ok

\* C3 as amended: the date of the event returned parses whenever some valid
\* event has a date that parses and lies strictly before now; an event whose
\* date does not parse is returned only when no valid event is such a past
\* event, and is then one of the valid events of the calendar.
C3_ReturnedDateParsesWhenSomePast ==
    Returned =>
        /\ (PastRows # {} => ReturnedDate.ok)
        /\ (~ReturnedDate.ok =>
                /\ PastRows = {}
                /\ \E i \in ValidRows : selOut.event.Date = selFile.rows[i][1]
                                        /\ selOut.event.Topic = selFile.rows[i][2])

\* A past event is returned although an event with an unparsed date is listed
\* before it.
C3_Witness ==
    /\ Returned
    /\ PastRows # {}
    /\ ReturnedDate.ok
    /\ \E i \in ValidRows : ~RowDate(i).ok /\ \E j \in PastRows : i < j

(***************************************************************************)
(* Claims about the certificate run                                        *)
(***************************************************************************)
\* matchAttendeesWithEmails has run.
MatchDone == cpc \in {"calendar", "loop"} \/ cSummary # <<>>

Dialed(i) == \E k \in 1..Len(cDialed) : cDialed[k] = i

Reported(i) == \E e \in cErrors : e.attendee = i

\* C5: an attendee whose name is not in the roster keeps the email "", is never
\* the object of an SMTP send, is reported with an error once processed and is
\* not counted as sent; an attendee whose name is in the roster has exactly the
\* roster's email.
C5_UnmatchedAttendeeIsReportedNotSent ==
    MatchDone =>
        /\ \A i \in 1..Len(cAttendees) :
              IF cAttendees[i].Name \in DOMAIN cRoster
              THEN cAttendees[i].Email = cRoster[cAttendees[i].Name]
              ELSE /\ cAttendees[i].Email = ""
                   /\ ~Dialed(i)
                   /\ \A d \in cDelivered : d.attendee # i
                   /\ (i <= cIdx => Reported(i))
        /\ sentCount = Cardinality(cDelivered)
        /\ sentCount <= Cardinality({i \in 1..cIdx : cAttendees[i].Name \in DOMAIN cRoster})

\* A finished run in which an attendee missing from the roster had a certificate
\* rendered, and another attendee was sent one at the roster's address.
C5_Witness ==
    /\ cSummary # <<>>
    /\ \E i \in 1..Len(cAttendees) :
          cAttendees[i].Name \notin DOMAIN cRoster /\ i \in cFiles
    /\ \E d \in cDelivered : d.to = cRoster[cAttendees[d.attendee].Name]

\* C6: no failure for one attendee aborts the batch: certificate generation is
\* attempted for the attendees one by one in list order, each once; the loop
\* never exits the process and can always go on; a run that entered the loop
\* ends with the summary line and exit code 0 after the last attendee.
C6_FailuresNeverAbortTheBatch ==
    /\ cIdx <= Len(cAttendees)
    /\ cGenerated = [i \in 1..cIdx |-> i]
    /\ \A i \in 1..cIdx : i \in cFiles \/ Reported(i)
    /\ (cpc = "loop" => cExit = -1 /\ cSummary = <<>> /\ ENABLED CertNext)
    /\ (cpc = "exit" /\ cEvent # NoEvent =>
            /\ cIdx = Len(cAttendees)
            /\ cSummary = <<Len(cAttendees), sentCount>>
            /\ cExit = 0)

\* A finished run over three attendees: the first certificate failed to render,
\* a later send failed, and the last attendee was still served.
C6_Witness ==
    /\ cpc = "exit" /\ cSummary # <<>>
    /\ Len(cAttendees) = 3
    /\ 1 \notin cFiles
    /\ [attendee |-> 2, what |-> "email"] \in cErrors
    /\ \E d \in cDelivered : d.attendee = 3

NoCertOutput ==
    cGenerated = <<>> /\ cFiles = {} /\ cDialed = <<>> /\ cDelivered = {} /\ sentCount = 0

\* The setup of the certificate run fails: no credentials, or a load that fails.
CertSetupFails ==
    \/ cEnv # "ok"
    \/ readRoster(cRosterFile).err # ""
    \/ readAttendance(cAttFile).err # ""
    \/ getMostRecentEvent(cCalFile, cNow).err # ""

\* The notice run is given a spreadsheet it cannot load.
NoticeSetupFails == nArgs >= 1 /\ readSpreadsheet(nFile).err # ""

\* C7: a certificate run whose setup fails ends with a non-zero exit code, no
\* certificate written and no email sent, and nothing is written or sent before
\* the setup is over; a notice run whose spreadsheet cannot be loaded ends with a
\* non-zero exit code and no output file.
C7_FatalSetupErrorsAbortBeforeOutput ==
    /\ (cpc \in {"start", "credentials", "roster", "attendance", "match", "calendar"}
            => NoCertOutput)
    /\ (cpc = "exit" /\ CertSetupFails => cExit = 1 /\ NoCertOutput /\ cSummary = <<>>)
    /\ (npc = "start" => nOutput = "absent")
    /\ (npc = "exit" /\ NoticeSetupFails => nExit = 1 /\ nOutput = "absent")

\* The last setup step fails: roster and attendance are loaded and matched, then
\* the calendar lacks a required column.
C7_Witness ==
    /\ cpc = "exit" /\ cExit = 1
    /\ cEnv = "ok" /\ DOMAIN cRoster # {} /\ cAttendees # <<>>
    /\ getMostRecentEvent(cCalFile, cNow).err = "required columns not found"

(***************************************************************************)
(* Claims about the date parser                                            *)
(***************************************************************************)
\* A cell that is a plain positive number: digits with at most one decimal
\* point, not all of them zero.
NumericOnly(s) ==
    /\ s # ""
    /\ \A i \in 1..Len(s) : Ch(s, i) \in DigitChars \cup {"."}
    /\ Cardinality({i \in 1..Len(s) : Ch(s, i) = "."}) <= 1
    /\ \E i \in 1..Len(s) : isDigit(s, i)

PositiveNumber(s) == NumericOnly(s) /\ \E i \in 1..Len(s) : Ch(s, i) \in DigitChars \ {"0"}

\* C8: parseDate takes the serial-date fallback only for a numeric-only, positive
\* cell that no layout matched; every other cell that no layout matches is an error.
C8_SerialFallbackOnlyForPositiveNumbers ==
    dateOut # Unset =>
        /\ (dateOut.via = "serial" =>
                PositiveNumber(dateStr) /\ FirstFormat(parseDateFormats, dateStr) = 0)
        /\ (FirstFormat(parseDateFormats, dateStr) = 0 /\ ~PositiveNumber(dateStr)
                => ~dateOut.ok)

(***************************************************************************)
(* Claims about column detection                                           *)
(***************************************************************************)
IsNotice == hdrLoader \in {"csv", "excel"}

\* The column words a loader looks for, in the order it tests a cell for them.
TargetWords ==
    CASE hdrLoader = "attendance" -> <<"name">>
      [] hdrLoader = "roster"     -> <<"name", "email">>
      [] OTHER                    -> <<"date", "topic", "speaker", "location", "time">>

RequiredWords ==
    CASE hdrLoader = "attendance" -> {"name"}
      [] hdrLoader = "roster"     -> {"name", "email"}
      [] hdrLoader = "calendar"   -> {"date", "topic", "speaker"}
      [] OTHER                    -> {"date", "topic", "speaker", "location", "time"}

MissingColumnError ==
    CASE hdrLoader = "attendance" -> "Name column not found"
      [] hdrLoader = "roster"     -> "Name or Email column not found in roster"
      [] hdrLoader = "calendar"   -> "required columns not found"
      [] OTHER -> "spreadsheet must have columns: date, topic, speaker, location, time"

Words == {TargetWords[k] : k \in 1..Len(TargetWords)}

\* The cell holds the word in some letter case.
Holds(cell, w) == Contains(ToLower(cell), w)

\* The word a cell stands for in the loader at hand: in the certificate loaders
\* the first word of the loader's order that the cell holds, in the notice
\* loaders the word the cell is once trimmed and lower-cased ("" for none).
WordOf(cell) ==
    IF IsNotice
    THEN (IF ToLower(TrimSpace(cell)) \in Words THEN ToLower(TrimSpace(cell)) ELSE "")
    ELSE IF \E k \in 1..Len(TargetWords) : Holds(cell, TargetWords[k])
         THEN TargetWords[CHOOSE k \in 1..Len(TargetWords) :
                            /\ Holds(cell, TargetWords[k])
                            /\ \A j \in 1..(k - 1) : ~Holds(cell, TargetWords[j])]
         ELSE ""

HeaderRow1 == IF Len(hdrFile.rows) > 0 THEN hdrFile.rows[1] ELSE <<>>

HeaderRow2 == IF Len(hdrFile.rows) > 1 THEN hdrFile.rows[2] ELSE <<>>

\* The calendar's second row is scanned when the first did not give date, topic
\* and speaker.
SecondRowScanned ==
    /\ hdrLoader = "calendar"
    /\ \E w \in RequiredWords : \A i \in 1..Len(HeaderRow1) : WordOf(HeaderRow1[i]) # w

\* The notice loaders look at the header only of a file that was read and has a
\* header and a data row; a CSV file is read only when all its records have the
\* same number of fields.
Rectangular == \A i \in 1..Len(hdrFile.rows) : Len(hdrFile.rows[i]) = Len(HeaderRow1)

HeaderScanned ==
    IsNotice => Len(hdrFile.rows) >= 2 /\ (hdrLoader = "csv" => Rectangular)

ScannedCells ==
    IF ~HeaderScanned THEN {}
    ELSE {HeaderRow1[i] : i \in 1..Len(HeaderRow1)}
         \cup (IF SecondRowScanned THEN {HeaderRow2[i] : i \in 1..Len(HeaderRow2)} ELSE {})

FirstIn(row, w) ==
    IF \E i \in 1..Len(row) : WordOf(row[i]) = w
    THEN (CHOOSE i \in 1..Len(row) :
             WordOf(row[i]) = w /\ \A j \in 1..(i - 1) : WordOf(row[j]) # w) - 1
    ELSE -1

\* C10: every loader resolves a column to the first cell that matches it, the
\* leftmost one of the earliest row scanned; a later matching cell never
\* replaces it.
C10_FirstMatchingCellWins ==
    hdrDone /\ HeaderScanned =>
        \A w \in Words :
            hdrCols[w] = IF FirstIn(HeaderRow1, w) # -1 \/ ~SecondRowScanned
                         THEN FirstIn(HeaderRow1, w)
                         ELSE FirstIn(HeaderRow2, w)

(***************************************************************************)
(* Claims about name normalization                                         *)
(***************************************************************************)
Blank(s) == \A i \in 1..Len(s) : Ch(s, i) \in SpaceChars

NoComma(s) == \A i \in 1..Len(s) : Ch(s, i) # ","

FullName(p) == p.first \o " " \o p.last

FormsOf(p) == CommaForms(p) \cup PlainForms(p)

\* C11: convertNameFormat turns "Last, First" into "First Last" with both parts
\* trimmed; a name without a comma comes back with the blanks around it removed
\* and nothing else changed; and since readRoster and readAttendance both apply
\* it, a roster row and an attendance row that write the same person, each in
\* either form, give equal keys: the attendee is found in the roster and gets
\* the roster's email.
C11_NameNormalization ==
    /\ "convert" \in namePc =>
          /\ \A p \in People : nameAttCell \in CommaForms(p) => nameOut = FullName(p)
          /\ NoComma(nameAttCell) =>
                /\ \E i, j \in 0..Len(nameAttCell) :
                      /\ Blank(Take(nameAttCell, i))
                      /\ Blank(Drop(nameAttCell, j))
                      /\ i <= j
                      /\ nameOut = SubSeq(nameAttCell, i + 1, j)
                /\ nameOut # "" => ~Blank(Ch(nameOut, 1)) /\ ~Blank(Ch(nameOut, Len(nameOut)))
    /\ "match" \in namePc =>
          \A p \in People :
              nameRosterCell \in FormsOf(p) /\ nameAttCell \in FormsOf(p) =>
                  /\ DOMAIN nameRoster = {FullName(p)}
                  /\ nameAttendees = <<[Name |-> FullName(p), Email |-> NameEmail]>>

\* The roster writes "Doe, Jon" with stray blanks, the attendance sheet writes
\* "Jon Doe", and the attendee got the roster's email.
C11_Witness ==
    /\ namePc = {"convert", "match"}
    /\ nameRosterCell = " Doe , Jon"
    /\ nameAttCell = "Jon Doe"
    /\ nameOut = "Jon Doe"
    /\ Len(nameAttendees) = 1 /\ nameAttendees[1].Email = NameEmail

(***************************************************************************)
(* Claims about the two date parsers together                              *)
(***************************************************************************)
\* C12: for every date string parseDate and parseFlexibleDate either both fail
\* or both succeed with the same calendar date.
C12_ParsersAgree ==
    (dateOut # Unset /\ flexOut # Unset) =>
        /\ dateOut.ok = flexOut.ok
        /\ dateOut.ok => dateOut.day = flexOut.day

(***************************************************************************)
(* Claims about the summary line                                           *)
(***************************************************************************)
\* C13: the two numbers of the final line are the number of attendees whose
\* certificate file was written without error and the number of attendees whose
\* email was sent without error, so the second is at most the first and the
\* first at most the number of attendees.
C13_SummaryCountsWhatWasDone ==
    cSummary # <<>> =>
        /\ cSummary[1] = Cardinality(cFiles)
        /\ cSummary[2] = Cardinality(cDelivered)
        /\ cSummary[2] <= cSummary[1]
        /\ cSummary[1] <= Len(cAttendees)

====
